---------------------------- MODULE Spec2Model ----------------------------
(***************************************************************************)
(* Growth-metrics computations of the retail-statistics analysis scripts   *)
(* (reference/python): the period comparison of analysis.py, the 2007-2021 *)
(* growth charts, and the per-city CAGR of comprehensive_analysis.py and   *)
(* thesis_key_findings.py, the outlier detection and top-growth lists of   *)
(* thesis_key_findings.py, the analysis pipeline of                        *)
(* comprehensive_analysis.py (run_full_analysis, the correlation analysis, *)
(* save_results) and the overview table of create_presentation_figures.py. *)
(*                                                                         *)
(* Floats are modelled exactly: a finite float is a reduced fraction n/d,  *)
(* and NaN, +inf and -inf are values of their own.  A compound annual      *)
(* growth rate ((n/d) ** (1/r) - 1) * 100 is in general irrational and is  *)
(* kept in that symbolic form (kind "cagr").  Float rounding error is not  *)
(* modelled.                                                               *)
(***************************************************************************)
EXTENDS Integers, Sequences, FiniteSets, TLC

VARIABLES
    df,              \* the DataFrame: a sequence of rows (records)
    pc,              \* position of the running script
    exc,             \* the exception that ended the script, or "none"
    i,               \* index of the running loop over the unique cities
    period_stats,    \* analysis.py: city -> period -> metric -> result
    json_out,        \* period_comparison.json as written ("unwritten" before)
    ret,             \* what create_period_comparison_table returned
    change_data,     \* analysis.py create_period_change_graph: list of rows
    growth_data,     \* the 2007-2021 growth charts: list of rows
    city_timeseries, \* comprehensive_analysis.py: city -> city_trends
    city_growth,     \* thesis_key_findings.py: city -> growth record
    cagr_data,       \* display_results.py: list of rows
    arg,             \* inputs of the growth formulas: <<start, end>>
    out,             \* formula name -> value computed from arg
    files,           \* the file system: path -> content
    steps,           \* the analysis functions called so far, in order
    prev,            \* the outputs of an earlier run on the same input
    tasks,           \* city -> state of the loop iteration run as a task
    selected,        \* function -> the DataFrame rows its aggregate is over
    results          \* self.results or self.findings: section -> value

vars == <<df, pc, exc, i, period_stats, json_out, ret, change_data, growth_data,
          city_timeseries, city_growth, cagr_data, arg, out,
          files, steps, prev, tasks, selected, results>>

-----------------------------------------------------------------------------
(* Bounds of the model *)

MaxVal == 2
MaxRows == 2
MaxSeriesRows == 3

-----------------------------------------------------------------------------
(* Floats *)

Abs(x) == IF x < 0 THEN -x ELSE x

RECURSIVE GCD(_, _)
GCD(a, b) == IF b = 0 THEN a ELSE GCD(b, a % b)

\* the float n/d, d # 0, as a reduced fraction with a positive denominator
Rat(n, d) ==
    LET g == GCD(Abs(n), Abs(d))
        s == IF d < 0 THEN -1 ELSE 1
    IN  [k |-> "num", n |-> s * (n \div g), d |-> s * (d \div g), r |-> 1]

Num(v) == [k |-> "num", n |-> v, d |-> 1, r |-> 1]
NaN == [k |-> "nan", n |-> 0, d |-> 1, r |-> 1]
Inf == [k |-> "inf", n |-> 0, d |-> 1, r |-> 1]
NegInf == [k |-> "ninf", n |-> 0, d |-> 1, r |-> 1]
\* not a float: the evaluation raised ZeroDivisionError
Raised == [k |-> "raise", n |-> 0, d |-> 1, r |-> 1]
\* ((n/d) ** (1/r) - 1) * 100 for n/d > 0, n/d # 1, r >= 2
Cagr(n, d, r) == [k |-> "cagr", n |-> n, d |-> d, r |-> r]

IsNum(x) == x.k = "num"
IsNaN(x) == x.k = "nan"
IsInfinite(x) == x.k \in {"inf", "ninf"}
IsFinite(x) == x.k \in {"num", "cagr", "cagr2"}
IsZero(x) == x.k = "num" /\ x.n = 0
\* x > 0 as Python and numpy evaluate it: False for NaN
Positive(x) == \/ x.k = "inf"
               \/ x.k = "num" /\ x.n > 0
Negative(x) == \/ x.k = "ninf"
               \/ x.k = "num" /\ x.n < 0


NaNOrRaised(a, b) ==
    IF a.k = "raise" \/ b.k = "raise" THEN Raised ELSE NaN

Neg(a) ==
    CASE a.k = "inf" -> NegInf
      [] a.k = "ninf" -> Inf
      [] a.k = "num" -> Rat(-a.n, a.d)
      [] OTHER -> a

\* IEEE-754 a - b (rounding aside)
Sub(a, b) ==
    CASE a.k \in {"raise", "nan"} \/ b.k \in {"raise", "nan"} -> NaNOrRaised(a, b)
      [] IsInfinite(a) -> IF b.k = a.k THEN NaN ELSE a
      [] IsInfinite(b) -> Neg(b)
      [] OTHER -> Rat(a.n * b.d - b.n * a.d, a.d * b.d)

\* IEEE-754 a * b (rounding aside)
Mul(a, b) ==
    CASE a.k \in {"raise", "nan"} \/ b.k \in {"raise", "nan"} -> NaNOrRaised(a, b)
      [] IsInfinite(a) \/ IsInfinite(b) ->
            IF IsZero(a) \/ IsZero(b) THEN NaN
            ELSE IF Positive(a) = Positive(b) THEN Inf ELSE NegInf
      [] OTHER -> Rat(a.n * b.n, a.d * b.d)

\* numpy a / b: division by zero yields inf, -inf or NaN and a RuntimeWarning
NpDiv(a, b) ==
    CASE a.k \in {"raise", "nan"} \/ b.k \in {"raise", "nan"} -> NaNOrRaised(a, b)
      [] IsZero(b) -> IF IsZero(a) THEN NaN
                      ELSE IF Positive(a) THEN Inf ELSE NegInf
      [] IsInfinite(a) -> IF IsInfinite(b) THEN NaN
                          ELSE IF Positive(a) = Positive(b) THEN Inf ELSE NegInf
      [] IsInfinite(b) -> Num(0)
      [] OTHER -> Rat(a.n * b.d, a.d * b.n)

\* Python float a / b: a zero divisor raises ZeroDivisionError, also for a NaN
\* dividend
PyDiv(a, b) ==
    IF a.k = "raise" \/ b.k = "raise" \/ IsZero(b) THEN Raised ELSE NpDiv(a, b)

\* the rate without the "- 1": ratio ** (1/years) * 100
GrowthRateNoSubtract(ratio, years) ==
    CASE ratio.k \in {"raise", "nan"} -> ratio
      [] ratio.k = "inf" -> Inf
      [] ratio.k = "ninf" -> IF years = 1 THEN NegInf ELSE Inf
      [] years = 1 -> Mul(ratio, Num(100))
      [] ratio.n < 0 -> NaN
      [] ratio.n = 0 -> Num(0)
      [] ratio.n = ratio.d -> Num(100)
      [] OTHER -> Cagr(ratio.n, ratio.d, years)

\* (ratio ** (1/years) - 1) * 100 as numpy evaluates it, years >= 1
GrowthRate(ratio, years) ==
    CASE ratio.k \in {"raise", "nan"} -> ratio
      [] ratio.k = "inf" -> Inf
      [] ratio.k = "ninf" -> IF years = 1 THEN NegInf ELSE Inf
      [] years = 1 -> Mul(Sub(ratio, Num(1)), Num(100))
      [] ratio.n < 0 -> NaN
      [] ratio.n = 0 -> Num(-100)
      [] ratio.n = ratio.d -> Num(0)
      [] OTHER -> Cagr(ratio.n, ratio.d, years)

RECURSIVE Pow(_, _)
Pow(b, e) == IF e = 0 THEN 1 ELSE b * Pow(b, e - 1)

\* round(x, 2) of a CAGR: the symbolic value is kept and marked as rounded; the
\* whole numbers 0 and -100 are their own rounding
Round2(x) == IF x.k = "cagr" THEN [x EXCEPT !.k = "cagr2"] ELSE x

-----------------------------------------------------------------------------
(* The growth formulas, as each script writes them *)

\* the percentage taken of the end value instead of the start value
TableChangePctOfEnd(start_val, end_val) ==
    Mul(PyDiv(Sub(end_val, start_val), end_val), Num(100))

\* analysis.py create_period_comparison_table, on Python floats
TableChangeAbs(start_val, end_val) == Sub(end_val, start_val)
TableChangePct(start_val, end_val) ==
    Mul(PyDiv(Sub(end_val, start_val), start_val), Num(100))

\* analysis.py create_period_change_graph, on numpy scalars
GraphChangePct(val_start, val_end) ==
    Mul(NpDiv(Sub(val_end, val_start), val_start), Num(100))

\* create_presentation_figures.py create_city_growth_chart
ChartGrowth(v2007, v2021) ==
    Mul(Sub(NpDiv(v2021, v2007), Num(1)), Num(100))

\* fixed_visualization.py / english_visualization.py: years = 14
ChartYears == 14
ChartCagr(v2007, v2021) == GrowthRate(NpDiv(v2021, v2007), ChartYears)

-----------------------------------------------------------------------------
(* DataFrame helpers *)

\* Series.unique(): the values in order of first appearance
RECURSIVE Unique(_)
Unique(s) ==
    IF s = <<>> THEN <<>>
    ELSE LET h == Head(s)
         IN  <<h>> \o Unique(SelectSeq(Tail(s), LAMBDA x : x # h))

Column(d, col) == [j \in DOMAIN d |-> d[j][col]]

\* d[d[col] == v]: the rows with that value, in the order of d
Where(d, col, v) == SelectSeq(d, LAMBDA row : row[col] = v)

\* d.sort_values('year'): the default sort is not stable, so rows of the same
\* year may come out in any order
SortValuesYear(d) ==
    { [j \in DOMAIN d |-> d[p[j]]] :
        p \in { q \in Permutations(DOMAIN d) :
                  \A a, b \in DOMAIN d : a < b => d[q[a]].year <= d[q[b]].year } }

-----------------------------------------------------------------------------
(* analysis.py *)

Metrics == <<"establishments", "employees", "sales", "salesArea">>
Periods == <<"2007-2012", "2012-2021">>
PeriodStart(period) == IF period = "2007-2012" THEN 2007 ELSE 2012
PeriodEnd(period) == IF period = "2007-2012" THEN 2012 ELSE 2021
Range(s) == { s[j] : j \in DOMAIN s }

\* line 39: df['period'] = df['year'].apply(...)
PeriodOf(year) == IF year <= 2012 THEN "2007-2012" ELSE "2012-2021"
WithPeriodColumn(d) ==
    [j \in DOMAIN d |-> ("period" :> PeriodOf(d[j].year)) @@ d[j]]

start_data(city_data, period) == Where(city_data, "year", PeriodStart(period))
end_data(city_data, period) == Where(city_data, "year", PeriodEnd(period))

\* line 58: both endpoint observations of the period exist
HasPeriod(city_data, period) ==
    Len(start_data(city_data, period)) > 0 /\ Len(end_data(city_data, period)) > 0

\* lines 62-72: one metric of one period
MetricChange(start_val, end_val) ==
    [start |-> start_val,
     end |-> end_val,
     change_pct |-> TableChangePct(start_val, end_val),
     change_abs |-> TableChangeAbs(start_val, end_val)]

\* lines 59-72: period_change of one city and period
period_change(city_data, period) ==
    [metric \in Range(Metrics) |->
        MetricChange(start_data(city_data, period)[1][metric],
                     end_data(city_data, period)[1][metric])]

\* lines 48-74: city_stats of one city
city_stats(city_data) ==
    [period \in { q \in Range(Periods) : HasPeriod(city_data, q) } |->
        period_change(city_data, period)]

\* the iteration of the city raises: some division of line 65 has a zero divisor
CityRaises(city_data) ==
    \E period \in Range(Periods) :
        /\ HasPeriod(city_data, period)
        /\ \E metric \in Range(Metrics) :
              period_change(city_data, period)[metric].change_pct = Raised


\* the bounded datasets of retail_data_with_ratios.csv: every cell is a count
\* 0..MaxVal or empty (NaN), and a row has at most one metric that is not 1
Cities == {"A", "B"}
Years == {2007, 2012, 2021}
Vals == {NaN} \cup { Num(v) : v \in 0..MaxVal }
MetricProfiles ==
    { m \in [Range(Metrics) -> Vals] :
        Cardinality({ metric \in Range(Metrics) : m[metric] # Num(1) }) <= 1 }
CsvRows ==
    { [city |-> c, year |-> y, establishments |-> m["establishments"],
       employees |-> m["employees"], sales |-> m["sales"],
       salesArea |-> m["salesArea"]] :
        c \in Cities, y \in Years, m \in MetricProfiles }
CsvDatasets == UNION { [1..n -> CsvRows] : n \in 0..MaxRows }

\* the paths the scripts read and write, by file name
CsvPath == "retail_data_with_ratios.csv"
JsonPath == "period_comparison.json"
MdPath == "period_comparison.md"
ResultsPath == "comprehensive_analysis_results.json"

\* pd.Timestamp.now().strftime('%Y年%m月%d日'): the day of the run
Dates == {"day 1", "day 2"}

\* generate_markdown_report: the report carries the analysis date
MarkdownReport(stats, date) == [date |-> date, stats |-> stats]

\* the state of main() right after load_data() returned the DataFrame d
Loaded(d) ==
    /\ df = d
    /\ pc = "main" /\ exc = "none" /\ i = 1
    /\ period_stats = <<>> /\ json_out = "unwritten" /\ ret = <<>>
    /\ change_data = <<>> /\ growth_data = <<>> /\ city_timeseries = <<>>
    /\ city_growth = <<>> /\ cagr_data = <<>> /\ arg = <<>> /\ out = <<>>
    /\ files = (CsvPath :> d)
    /\ steps = <<>> /\ prev = <<>> /\ tasks = <<>> /\ selected = <<>>
    /\ results = <<>>

\* main() after load_data() returned the DataFrame
Init == \E d \in CsvDatasets : Loaded(d)

\* create_period_comparison_table, line 39: the period column is added to df
AddPeriodColumn ==
    /\ pc = "main"
    /\ df' = WithPeriodColumn(df)
    /\ steps' = Append(steps, "create_period_comparison_table")
    /\ pc' = "table_loop" /\ i' = 1
    /\ UNCHANGED <<exc, period_stats, json_out, ret, change_data, growth_data,
                   city_timeseries, city_growth, cagr_data, arg, out,
                   files, prev, tasks, selected, results>>

\* create_period_comparison_table, lines 46-76: one iteration of the city loop;
\* a ZeroDivisionError leaves the function and main()
TableCity ==
    /\ pc = "table_loop" /\ i <= Len(Unique(Column(df, "city")))
    /\ LET city == Unique(Column(df, "city"))[i]
           city_data == Where(df, "city", city)
       IN  IF CityRaises(city_data)
           THEN /\ pc' = "raised" /\ exc' = "ZeroDivisionError"
                /\ UNCHANGED <<i, period_stats>>
           ELSE /\ period_stats' = (city :> city_stats(city_data)) @@ period_stats
                /\ i' = i + 1
                /\ UNCHANGED <<pc, exc>>
    /\ UNCHANGED <<df, json_out, ret, change_data, growth_data,
                   city_timeseries, city_growth, cagr_data, arg, out,
                   files, steps, prev, tasks, selected, results>>

\* the period table with the analysis date stored in the mapping
TableSaveStamped ==
    /\ pc = "table_loop" /\ i > Len(Unique(Column(df, "city")))
    /\ \E date \in Dates :
          /\ json_out' = [date |-> date, stats |-> period_stats]
          /\ ret' = <<json_out'>>
          /\ files' = (JsonPath :> json_out')
                       @@ (MdPath :> MarkdownReport(period_stats, date)) @@ files
    /\ pc' = "graphs" /\ i' = 1
    /\ UNCHANGED <<df, exc, period_stats, change_data, growth_data,
                   city_timeseries, city_growth, cagr_data, arg, out,
                   steps, prev, tasks, selected, results>>

\* create_period_comparison_table, lines 78-96: json.dump(period_stats), the
\* Markdown report of the day, and return period_stats
TableSave ==
    /\ pc = "table_loop" /\ i > Len(Unique(Column(df, "city")))
    /\ json_out' = period_stats
    /\ \E date \in Dates :
          files' = (JsonPath :> period_stats)
                   @@ (MdPath :> MarkdownReport(period_stats, date)) @@ files
    /\ ret' = <<period_stats>>
    /\ pc' = "graphs" /\ i' = 1
    /\ UNCHANGED <<df, exc, period_stats, change_data, growth_data,
                   city_timeseries, city_growth, cagr_data, arg, out,
                   steps, prev, tasks, selected, results>>

\* a figure file as plt.savefig writes it
Png == "png"

\* create_comprehensive_graphs, lines 176-249: the time-series and the
\* efficiency figure are saved, then create_period_change_graph is called
GraphsStart ==
    /\ pc = "graphs"
    /\ steps' = Append(steps, "create_comprehensive_graphs")
    /\ files' = ("time_series_comprehensive.png" :> Png)
                 @@ ("efficiency_comprehensive.png" :> Png) @@ files
    /\ pc' = "graph_loop" /\ i' = 1
    /\ UNCHANGED <<df, exc, period_stats, json_out, ret, change_data, growth_data,
                   city_timeseries, city_growth, cagr_data, arg, out,
                   prev, tasks, selected, results>>

\* create_period_change_graph, lines 271-295: the rows of one period
change_rows(city, data_start, data_end, period) ==
    IF Len(data_start) > 0 /\ Len(data_end) > 0
    THEN [j \in 1..3 |->
            [city |-> city, period |-> period, metric |-> Metrics[j],
             change_pct |-> GraphChangePct(data_start[1][Metrics[j]],
                                           data_end[1][Metrics[j]])]]
    ELSE <<>>

\* create_period_change_graph, lines 262-295: one iteration of the city loop
GraphCity ==
    /\ pc = "graph_loop" /\ i <= Len(Unique(Column(df, "city")))
    /\ LET city == Unique(Column(df, "city"))[i]
       IN  \E city_data \in SortValuesYear(Where(df, "city", city)) :
              change_data' =
                 IF Len(city_data) >= 2
                 THEN change_data
                      \o change_rows(city, Where(city_data, "year", 2007),
                                     Where(city_data, "year", 2012), "2007-2012")
                      \o change_rows(city, Where(city_data, "year", 2012),
                                     Where(city_data, "year", 2021), "2012-2021")
                 ELSE change_data
    /\ i' = i + 1
    /\ UNCHANGED <<df, pc, exc, period_stats, json_out, ret, growth_data,
                   city_timeseries, city_growth, cagr_data, arg, out,
                   files, steps, prev, tasks, selected, results>>

\* create_period_change_graph, lines 297-331, and create_city_comparison_graph:
\* the loop is over and the two figures are saved
GraphDone ==
    /\ pc = "graph_loop" /\ i > Len(Unique(Column(df, "city")))
    /\ files' = ("period_change_comparison.png" :> Png)
                 @@ ("city_comparison_latest.png" :> Png) @@ files
    /\ pc' = "done"
    /\ UNCHANGED <<df, exc, i, period_stats, json_out, ret, change_data,
                   growth_data, city_timeseries, city_growth, cagr_data, arg, out,
                   steps, prev, tasks, selected, results>>

Next ==
    AddPeriodColumn \/ TableCity \/ TableSave \/ GraphsStart \/ GraphCity \/ GraphDone

Spec == Init /\ [][Next]_vars

-----------------------------------------------------------------------------
(* analysis.py run a second time on the same input file *)

MaxSmallRows == 2

\* datasets in which only the establishments count varies
SmallRows ==
    { [city |-> c, year |-> y, establishments |-> v, employees |-> Num(1),
       sales |-> Num(1), salesArea |-> Num(1)] :
        c \in Cities, y \in Years, v \in Vals }
SmallDatasets == UNION { [1..n -> SmallRows] : n \in 0..MaxSmallRows }

RunsInit == \E d \in SmallDatasets : Loaded(d)

\* what a run of main() leaves behind
RunOutputs ==
    [exc |-> exc, ret |-> ret, json_out |-> json_out,
     md |-> IF MdPath \in DOMAIN files THEN <<files[MdPath]>> ELSE <<>>]

\* the script is started again: load_data() reads the same file, and the files
\* written by the first run are still there
RunAgain ==
    /\ pc \in {"done", "raised"} /\ prev = <<>>
    /\ prev' = RunOutputs
    /\ df' = files[CsvPath]
    /\ pc' = "main" /\ exc' = "none" /\ i' = 1
    /\ period_stats' = <<>> /\ json_out' = "unwritten" /\ ret' = <<>>
    /\ change_data' = <<>> /\ steps' = <<>>
    /\ UNCHANGED <<growth_data, city_timeseries, city_growth, cagr_data, arg, out,
                   files, tasks, selected, results>>

RunsNext == Next \/ RunAgain

SpecRuns == RunsInit /\ [][RunsNext]_vars

-----------------------------------------------------------------------------
(* analysis.py over datasets of the years 2007 and 2012, with room for two   *)
(* cities of which one has both observations of the period; a count is       *)
(* empty, zero or the largest value                                          *)

MaxTaskRows == 3

TaskRows ==
    { row \in SmallRows :
        row.year # 2021 /\ row.establishments \in {NaN, Num(0), Num(MaxVal)} }
TaskDatasets == UNION { [1..n -> TaskRows] : n \in 0..MaxTaskRows }

TableInit == \E d \in TaskDatasets : Loaded(d)

SpecTable == TableInit /\ [][Next]_vars

-----------------------------------------------------------------------------
(* The iterations of the city loop of create_period_comparison_table run as  *)
(* tasks, one per city, in any interleaving.  analysis.py itself runs them   *)
(* one after the other; what a task reads and writes is the loop body.       *)

TaskFrame ==
    UNCHANGED <<df, exc, i, json_out, ret, change_data, growth_data,
                city_timeseries, city_growth, cagr_data, arg, out,
                files, steps, prev, selected, results>>

\* line 46: one task per city of df['city'].unique()
TaskSpawn ==
    /\ pc = "table_loop" /\ i = 1 /\ Len(Unique(Column(df, "city"))) >= 1
    /\ tasks' = [city \in Range(Unique(Column(df, "city"))) |->
                    [pc |-> "ready", city_data |-> <<>>, city_stats |-> <<>>]]
    /\ pc' = "tasks"
    /\ UNCHANGED period_stats
    /\ TaskFrame

\* line 47: city_data = df[df['city'] == city]
TaskStart(city) ==
    /\ pc = "tasks" /\ city \in DOMAIN tasks /\ tasks[city].pc = "ready"
    /\ tasks' = [tasks EXCEPT ![city].pc = "running",
                              ![city].city_data = Where(df, "city", city)]
    /\ UNCHANGED <<pc, period_stats>>
    /\ TaskFrame

\* lines 48-74: city_stats is built from city_data, or the division raises
TaskCompute(city) ==
    /\ pc = "tasks" /\ city \in DOMAIN tasks /\ tasks[city].pc = "running"
    /\ tasks' = IF CityRaises(tasks[city].city_data)
                THEN [tasks EXCEPT ![city].pc = "raised"]
                ELSE [tasks EXCEPT ![city].pc = "computed",
                                   ![city].city_stats = city_stats(tasks[city].city_data)]
    /\ UNCHANGED <<pc, period_stats>>
    /\ TaskFrame

\* the task stores its city_stats in every slot of the mapping
TaskWriteShared(city) ==
    /\ pc = "tasks" /\ city \in DOMAIN tasks /\ tasks[city].pc = "computed"
    /\ period_stats' = [c \in DOMAIN period_stats \cup {city} |-> tasks[city].city_stats]
    /\ tasks' = [tasks EXCEPT ![city].pc = "done"]
    /\ UNCHANGED pc
    /\ TaskFrame

\* line 76: period_stats[city] = city_stats
TaskWrite(city) ==
    /\ pc = "tasks" /\ city \in DOMAIN tasks /\ tasks[city].pc = "computed"
    /\ period_stats' = (city :> tasks[city].city_stats) @@ period_stats
    /\ tasks' = [tasks EXCEPT ![city].pc = "done"]
    /\ UNCHANGED pc
    /\ TaskFrame

\* every task has ended: the exception of a task leaves the function as it
\* leaves the loop, otherwise lines 78-96 follow
TasksMerge ==
    /\ pc = "tasks" /\ \A city \in DOMAIN tasks : tasks[city].pc \in {"done", "raised"}
    /\ IF \E city \in DOMAIN tasks : tasks[city].pc = "raised"
       THEN pc' = "raised" /\ exc' = "ZeroDivisionError" /\ UNCHANGED i
       ELSE pc' = "table_loop" /\ i' = Len(Unique(Column(df, "city"))) + 1
                /\ UNCHANGED exc
    /\ UNCHANGED <<df, period_stats, json_out, ret, change_data, growth_data,
                   city_timeseries, city_growth, cagr_data, arg, out,
                   files, steps, prev, tasks, selected, results>>

TasksNext ==
    \/ AddPeriodColumn
    \/ TaskSpawn
    \/ \E city \in Cities : TaskStart(city) \/ TaskCompute(city) \/ TaskWrite(city)
    \/ TasksMerge
    \/ TableSave

SpecTasks == TableInit /\ [][TasksNext]_vars

-----------------------------------------------------------------------------
(* The 2007-2021 growth charts over unified_retail_dataset.json *)

MaxChartRows == 2

\* city names of the dataset, romanised; Kumamoto-shi is the city without a
\* 2007 observation in the real data
JsonCities == {"Koshigaya-shi", "Kumamoto-shi"}
JsonProfiles ==
    { m \in [{"establishments", "employees"} -> Vals] :
        m["establishments"] = Num(1) \/ m["employees"] = Num(1) }
JsonRows ==
    { [cityName |-> c, year |-> y, establishments |-> m["establishments"],
       employees |-> m["employees"]] :
        c \in JsonCities, y \in Years, m \in JsonProfiles }
ChartDatasets == UNION { [1..n -> JsonRows] : n \in 0..MaxChartRows }

\* create_presentation_figures.py load_data: city_map
city_map ==
    [c \in {"Koshigaya-shi", "Kashiwa-shi", "Saga-shi", "Kagoshima-shi",
            "Oita-shi", "Niigata-shi", "Matsuyama-shi", "Otsu-shi", "Gifu-shi",
            "Kumamoto-shi"} |->
        SubSeq(c, 1, Len(c) - 4)]

\* english_visualization.py create_growth_rate_comparison: city_mapping has no
\* entry for Kumamoto-shi
city_mapping ==
    [c \in DOMAIN city_map \ {"Kumamoto-shi"} |-> city_map[c]]

\* the mapped names in sorted order, the order of a groupby index
SortedNames ==
    <<"Gifu", "Kagoshima", "Kashiwa", "Koshigaya", "Kumamoto", "Matsuyama",
      "Niigata", "Oita", "Otsu", "Saga">>

\* create_city_growth_chart, lines 163-166
cities_with_both(d) ==
    SelectSeq(SortedNames,
              LAMBDA city : /\ Len(Where(Where(d, "cityName", city), "year", 2007)) > 0
                            /\ Len(Where(Where(d, "cityName", city), "year", 2021)) > 0)

ChartInit ==
    /\ df \in ChartDatasets
    /\ pc \in {"presentation", "fixed", "english"}
    /\ exc = "none" /\ i = 1
    /\ period_stats = <<>> /\ json_out = "unwritten" /\ ret = <<>>
    /\ change_data = <<>> /\ growth_data = <<>> /\ city_timeseries = <<>>
    /\ city_growth = <<>> /\ cagr_data = <<>> /\ arg = <<>> /\ out = <<>>
    /\ files = <<>> /\ steps = <<>> /\ prev = <<>> /\ tasks = <<>> /\ selected = <<>>
    /\ results = <<>>

ChartFrame ==
    UNCHANGED <<exc, period_stats, json_out, ret, change_data, city_timeseries,
                city_growth, cagr_data, arg, out,
                files, steps, prev, tasks, selected, results>>

\* create_presentation_figures.py load_data, line 52: the city names are mapped
PresentationLoad ==
    /\ pc = "presentation"
    /\ df' = [j \in DOMAIN df |-> [df[j] EXCEPT !.cityName = city_map[@]]]
    /\ pc' = "presentation_loop"
    /\ UNCHANGED <<i, growth_data>>
    /\ ChartFrame

\* create_city_growth_chart, lines 169-181: one iteration
PresentationCity ==
    /\ pc = "presentation_loop" /\ i <= Len(cities_with_both(df))
    /\ LET city == cities_with_both(df)[i]
       IN  \E city_data \in SortValuesYear(Where(df, "cityName", city)) :
              LET data_2007 == Where(city_data, "year", 2007)[1]
                  data_2021 == Where(city_data, "year", 2021)[1]
              IN  growth_data' = Append(growth_data,
                     [city |-> city,
                      establishments_growth |->
                          ChartGrowth(data_2007.establishments, data_2021.establishments),
                      employees_growth |->
                          ChartGrowth(data_2007.employees, data_2021.employees)])
    /\ i' = i + 1
    /\ UNCHANGED <<df, pc>>
    /\ ChartFrame

\* fixed_visualization.py create_growth_comparison, lines 172-194: one iteration
FixedCity ==
    /\ pc = "fixed" /\ i <= Len(Unique(Column(df, "cityName")))
    /\ LET city == Unique(Column(df, "cityName"))[i]
           city_data == Where(df, "cityName", city)
           data_2007 == Where(city_data, "year", 2007)
           data_2021 == Where(city_data, "year", 2021)
       IN  growth_data' =
              IF Len(data_2007) > 0 /\ Len(data_2021) > 0
              THEN Append(growth_data,
                     [city |-> city,
                      est_cagr |-> ChartCagr(data_2007[1].establishments,
                                             data_2021[1].establishments),
                      emp_cagr |-> ChartCagr(data_2007[1].employees,
                                             data_2021[1].employees)])
              ELSE growth_data
    /\ i' = i + 1
    /\ UNCHANGED <<df, pc>>
    /\ ChartFrame

\* english_visualization.py create_growth_rate_comparison, lines 173-194: one
\* iteration
EnglishCity ==
    /\ pc = "english" /\ i <= Len(Unique(Column(df, "cityName")))
    /\ LET city == Unique(Column(df, "cityName"))[i]
           city_data == Where(df, "cityName", city)
           data_2007 == Where(city_data, "year", 2007)
           data_2021 == Where(city_data, "year", 2021)
       IN  growth_data' =
              IF city \in DOMAIN city_mapping /\ Len(data_2007) > 0 /\ Len(data_2021) > 0
              THEN Append(growth_data,
                     [city |-> city_mapping[city],
                      est_cagr |-> ChartCagr(data_2007[1].establishments,
                                             data_2021[1].establishments),
                      emp_cagr |-> ChartCagr(data_2007[1].employees,
                                             data_2021[1].employees)])
              ELSE growth_data
    /\ i' = i + 1
    /\ UNCHANGED <<df, pc>>
    /\ ChartFrame

\* the city loop of the running chart script is over: growth_df is built
ChartDone ==
    /\ \/ pc = "presentation_loop" /\ i > Len(cities_with_both(df))
       \/ pc \in {"fixed", "english"} /\ i > Len(Unique(Column(df, "cityName")))
    /\ pc' = "done"
    /\ UNCHANGED <<df, i, growth_data>>
    /\ ChartFrame

ChartNext ==
    PresentationLoad \/ PresentationCity \/ FixedCity \/ EnglishCity \/ ChartDone

SpecChart == ChartInit /\ [][ChartNext]_vars

-----------------------------------------------------------------------------
(* Per-city CAGR: comprehensive_analysis.py, display_results.py and          *)
(* thesis_key_findings.py.  The trend slope and r2 entries of city_trends    *)
(* are not modelled.                                                         *)

SeriesDatasets == UNION { [1..n -> JsonRows] : n \in 0..MaxSeriesRows }

\* dict.get(key, default)
Get(dict, key, default) == IF key \in DOMAIN dict THEN dict[key] ELSE default

\* comprehensive_analysis.py time_series_analysis, lines 165-168, and
\* thesis_key_findings.py identify_top_growth_cities, lines 41-49:
\* years = len(values) - 1
SeriesYears(values) == Len(values) - 1
SeriesCagr(values) ==
    GrowthRate(NpDiv(values[Len(values)], values[1]), SeriesYears(values))

\* time_series_analysis, lines 161-168: the CAGR entry of one column, if any
cagr_entry(city_data, col) ==
    LET values == Column(city_data, col)
    IN  IF Len(values) > 1 /\ Positive(values[1]) /\ Positive(values[Len(values)])
        THEN ((col \o "_cagr") :> Round2(SeriesCagr(values)))
        ELSE <<>>

\* time_series_analysis, lines 160-176: city_trends of one city
city_trends(city_data) ==
    cagr_entry(city_data, "establishments") @@ cagr_entry(city_data, "employees")

SeriesInit ==
    /\ df \in SeriesDatasets
    /\ pc \in {"timeseries", "thesis"}
    /\ exc = "none" /\ i = 1
    /\ period_stats = <<>> /\ json_out = "unwritten" /\ ret = <<>>
    /\ change_data = <<>> /\ growth_data = <<>> /\ city_timeseries = <<>>
    /\ city_growth = <<>> /\ cagr_data = <<>> /\ arg = <<>> /\ out = <<>>
    /\ files = <<>> /\ steps = <<>> /\ prev = <<>> /\ tasks = <<>> /\ selected = <<>>
    /\ results = <<>>

SeriesFrame ==
    UNCHANGED <<df, exc, period_stats, json_out, ret, change_data, growth_data,
                arg, out,
                files, steps, prev, tasks, selected, results>>

\* time_series_analysis, lines 156-176: one iteration of the city loop
TimeSeriesCity ==
    /\ pc = "timeseries" /\ i <= Len(Unique(Column(df, "cityName")))
    /\ LET city == Unique(Column(df, "cityName"))[i]
       IN  \E city_data \in SortValuesYear(Where(df, "cityName", city)) :
              city_timeseries' =
                 IF Len(city_data) >= 3
                 THEN (city :> city_trends(city_data)) @@ city_timeseries
                 ELSE city_timeseries
    /\ i' = i + 1
    /\ UNCHANGED <<pc, city_growth, cagr_data>>
    /\ SeriesFrame

\* time_series_analysis, lines 178-182: the results are stored; save_results
\* writes them to comprehensive_analysis_results.json
TimeSeriesDone ==
    /\ pc = "timeseries" /\ i > Len(Unique(Column(df, "cityName")))
    /\ pc' = "display"
    /\ UNCHANGED <<i, city_timeseries, city_growth, cagr_data>>
    /\ SeriesFrame

\* display_results.py display_analysis_results, lines 62-72: cagr_data, in
\* the order of the dictionary
DisplayCagr ==
    /\ pc = "display"
    /\ LET keys == SelectSeq(Unique(Column(df, "cityName")),
                             LAMBDA city : city \in DOMAIN city_timeseries)
       IN  cagr_data' =
              [j \in DOMAIN keys |->
                 [city |-> keys[j],
                  est_cagr |-> Get(city_timeseries[keys[j]], "establishments_cagr", Num(0)),
                  emp_cagr |-> Get(city_timeseries[keys[j]], "employees_cagr", Num(0))]]
    /\ pc' = "done"
    /\ UNCHANGED <<i, city_timeseries, city_growth>>
    /\ SeriesFrame

\* identify_top_growth_cities, lines 39-61: the entry of one city
growth_entry(city_data) ==
    LET establishments == Column(city_data, "establishments")
        employees == Column(city_data, "employees")
        est_cagr == SeriesCagr(establishments)
        emp_cagr == IF Positive(employees[1]) /\ Positive(employees[Len(employees)])
                    THEN GrowthRate(NpDiv(employees[Len(employees)], employees[1]),
                                    SeriesYears(establishments))
                    ELSE Num(0)
    IN  [establishments_cagr |-> Round2(est_cagr),
         employees_cagr |-> Round2(emp_cagr),
         initial_establishments |-> establishments[1],
         final_establishments |-> establishments[Len(establishments)],
         initial_employees |-> employees[1],
         final_employees |-> employees[Len(employees)],
         data_points |-> Len(city_data)]

\* identify_top_growth_cities, lines 36-61: one iteration of the city loop
ThesisCity ==
    /\ pc = "thesis" /\ i <= Len(Unique(Column(df, "cityName")))
    /\ LET city == Unique(Column(df, "cityName"))[i]
       IN  \E city_data \in SortValuesYear(Where(df, "cityName", city)) :
              city_growth' =
                 IF /\ Len(city_data) >= 3
                    /\ Positive(city_data[1].establishments)
                    /\ Positive(city_data[Len(city_data)].establishments)
                 THEN (city :> growth_entry(city_data)) @@ city_growth
                 ELSE city_growth
    /\ i' = i + 1
    /\ UNCHANGED <<pc, city_timeseries, cagr_data>>
    /\ SeriesFrame

\* the growth factor n/d and the root r of a rate ((n/d) ** (1/r) - 1) * 100;
\* a plain number v is the rate of the factor v/100 + 1 and the root 1
Factor(v) ==
    IF v.k = "num" THEN [n |-> v.n + 100 * v.d, d |-> 100 * v.d, r |-> 1]
    ELSE [n |-> v.n, d |-> v.d, r |-> v.r]

\* a < b for two rates: (na/da) ** (1/ra) < (nb/db) ** (1/rb)
RateLess(a, b) ==
    LET fa == Factor(a)
        fb == Factor(b)
    IN  Pow(fa.n, fb.r) * Pow(fb.d, fa.r) < Pow(fb.n, fa.r) * Pow(fa.d, fb.r)

\* sorted(city_growth.items(), key=..., reverse=True)[:3], lines 64-65: the
\* sort is stable, so cities of equal rate keep the order of the dictionary
top_growth(growth, key) ==
    LET items == SelectSeq(Unique(Column(df, "cityName")),
                           LAMBDA city : city \in DOMAIN growth)
        Before(a, b) ==
            \/ RateLess(growth[items[b]][key], growth[items[a]][key])
            \/ /\ ~RateLess(growth[items[a]][key], growth[items[b]][key])
               /\ a < b
        sorted == [p \in DOMAIN items |->
                      items[CHOOSE j \in DOMAIN items :
                               Cardinality({ a \in DOMAIN items : Before(a, j) }) = p - 1]]
    IN  [p \in 1..(IF Len(sorted) < 3 THEN Len(sorted) ELSE 3) |->
            <<sorted[p], growth[sorted[p]]>>]

ThesisFrame ==
    UNCHANGED <<period_stats, json_out, ret, change_data, growth_data, arg, out,
                files, steps, prev, tasks, selected>>

\* identify_top_growth_cities, lines 63-71: the two top lists and
\* all_city_growth are stored
ThesisDone ==
    /\ pc = "thesis" /\ i > Len(Unique(Column(df, "cityName")))
    /\ results' = ("growth_analysis" :>
                      [top_establishment_growth |->
                           top_growth(city_growth, "establishments_cagr"),
                       top_employee_growth |->
                           top_growth(city_growth, "employees_cagr"),
                       all_city_growth |-> city_growth])
                  @@ results
    /\ pc' = "done"
    /\ UNCHANGED <<df, exc, i, city_timeseries, city_growth, cagr_data>>
    /\ ThesisFrame

\* generate_thesis_insights, lines 220-223: the first entry of
\* top_establishment_growth is read; the steps of run_full_analysis between
\* identify_top_growth_cities and this one do not touch growth_analysis
generate_thesis_insights ==
    /\ pc = "done" /\ "growth_analysis" \in DOMAIN results
    /\ LET top == results.growth_analysis.top_establishment_growth
       IN  IF Len(top) = 0
           THEN exc' = "IndexError" /\ pc' = "raised" /\ UNCHANGED results
           ELSE /\ results' = ("insights" :>
                                  [key_findings |->
                                      <<top[1][1], top[1][2].establishments_cagr>>])
                              @@ results
                /\ pc' = "save_findings"
                /\ UNCHANGED exc
    /\ UNCHANGED <<df, i, city_timeseries, city_growth, cagr_data>>
    /\ ThesisFrame

SeriesNext ==
    \/ TimeSeriesCity \/ TimeSeriesDone \/ DisplayCagr \/ ThesisCity \/ ThesisDone
    \/ generate_thesis_insights

SpecSeries == SeriesInit /\ [][SeriesNext]_vars

-----------------------------------------------------------------------------
(* The growth formulas applied to one pair of start and end values *)

ArithVals == {NaN} \cup { Num(v) : v \in (0 - MaxVal)..MaxVal }

ArithInit ==
    /\ arg \in ArithVals \X ArithVals
    /\ out = <<>>
    /\ pc = "formulas" /\ exc = "none" /\ i = 1
    /\ df = <<>>
    /\ period_stats = <<>> /\ json_out = "unwritten" /\ ret = <<>>
    /\ change_data = <<>> /\ growth_data = <<>> /\ city_timeseries = <<>>
    /\ city_growth = <<>> /\ cagr_data = <<>>
    /\ files = <<>> /\ steps = <<>> /\ prev = <<>> /\ tasks = <<>> /\ selected = <<>>
    /\ results = <<>>

ArithFrame ==
    UNCHANGED <<df, pc, exc, i, period_stats, json_out, ret, change_data,
                growth_data, city_timeseries, city_growth, cagr_data, arg,
                files, steps, prev, tasks, selected, results>>

\* analysis.py lines 63-72 on start_val = arg[1], end_val = arg[2]; the
\* division may raise ZeroDivisionError
ApplyTable ==
    /\ "table" \notin DOMAIN out
    /\ out' = ("table" :> IF TableChangePct(arg[1], arg[2]) = Raised
                           THEN [raised |-> "ZeroDivisionError"]
                           ELSE MetricChange(arg[1], arg[2])) @@ out
    /\ ArithFrame

\* analysis.py lines 273-282
ApplyGraph ==
    /\ "graph" \notin DOMAIN out
    /\ out' = ("graph" :> [change_pct |-> GraphChangePct(arg[1], arg[2])]) @@ out
    /\ ArithFrame

\* create_presentation_figures.py lines 174-181
ApplyChartGrowth ==
    /\ "chart" \notin DOMAIN out
    /\ out' = ("chart" :> [establishments_growth |-> ChartGrowth(arg[1], arg[2])]) @@ out
    /\ ArithFrame

\* fixed_visualization.py lines 186-194
ApplyChartCagr ==
    /\ "cagr" \notin DOMAIN out
    /\ out' = ("cagr" :> [est_cagr |-> ChartCagr(arg[1], arg[2])]) @@ out
    /\ ArithFrame

\* the year-sorted rows of a city with n observations whose first value is
\* start and whose last value is end
SeriesOf(start, end, n) ==
    [j \in 1..n |->
        [establishments |-> IF j = 1 THEN start ELSE IF j = n THEN end ELSE Num(1)]]

\* comprehensive_analysis.py lines 161-168 on a city of 3 or more observations
ApplySeriesCagr ==
    /\ "series" \notin DOMAIN out
    /\ \E n \in 3..(MaxSeriesRows + 1) :
          out' = ("series" :> cagr_entry(SeriesOf(arg[1], arg[2], n), "establishments"))
                 @@ out
    /\ ArithFrame

ArithNext ==
    ApplyTable \/ ApplyGraph \/ ApplyChartGrowth \/ ApplyChartCagr \/ ApplySeriesCagr

SpecArith == ArithInit /\ [][ArithNext]_vars

-----------------------------------------------------------------------------
(* The scripts from their start: analysis.py, statistical_tests.py and       *)
(* display_results.py, each with or without its input file.  The steps of    *)
(* statistical_tests.py are modelled by their names and the files they       *)
(* save, not by what they compute.                                           *)

\* load_data() returning an empty DataFrame for a missing file
load_dataEmptyFrame(fs, path) ==
    IF path \in DOMAIN fs THEN <<fs[path]>> ELSE << <<>> >>

\* analysis.py and statistical_tests.py load_data(): <<df>>, or <<>> for the
\* None returned when the file does not exist
load_data(fs, path) ==
    IF path \in DOMAIN fs THEN <<fs[path]>> ELSE <<>>

\* the file systems a script may start in: the input files exist or not
ScriptFiles ==
    { csv @@ res :
        csv \in {<<>>} \cup { (CsvPath :> d) : d \in SmallDatasets },
        res \in {<<>>, (ResultsPath :> <<>>)} }

ScriptsInit ==
    /\ pc \in {"analysis", "statistical_tests", "display_results"}
    /\ files \in ScriptFiles
    /\ df = <<>> /\ exc = "none" /\ i = 1
    /\ period_stats = <<>> /\ json_out = "unwritten" /\ ret = <<>>
    /\ change_data = <<>> /\ growth_data = <<>> /\ city_timeseries = <<>>
    /\ city_growth = <<>> /\ cagr_data = <<>> /\ arg = <<>> /\ out = <<>>
    /\ steps = <<>> /\ prev = <<>> /\ tasks = <<>> /\ selected = <<>>
    /\ results = <<>>

\* analysis.py main(), lines 375-382
AnalysisMain ==
    /\ pc = "analysis"
    /\ LET loaded == load_data(files, CsvPath)
       IN  IF loaded = <<>>
           THEN pc' = "done" /\ UNCHANGED df
           ELSE pc' = "main" /\ df' = loaded[1]
    /\ UNCHANGED <<exc, i, period_stats, json_out, ret, change_data, growth_data,
                   city_timeseries, city_growth, cagr_data, arg, out,
                   files, steps, prev, tasks, selected, results>>

\* statistical_tests.py main(), lines 241-243
StatMain ==
    /\ pc = "statistical_tests"
    /\ LET loaded == load_data(files, CsvPath)
       IN  IF loaded = <<>>
           THEN pc' = "done" /\ UNCHANGED df
           ELSE pc' = "stat_steps" /\ df' = loaded[1]
    /\ UNCHANGED <<exc, i, period_stats, json_out, ret, change_data, growth_data,
                   city_timeseries, city_growth, cagr_data, arg, out,
                   files, steps, prev, tasks, selected, results>>

\* statistical_tests.py main(), lines 246-251, with the files each step saves
StatSteps ==
    <<"descriptive_statistics", "time_series_analysis", "statistical_tests",
      "correlation_analysis", "create_visualizations", "save_results">>
StatFiles(step) ==
    CASE step = "create_visualizations" ->
            [f \in {"time_series.png", "efficiency_metrics.png",
                    "correlation_heatmap.png"} |-> Png]
      [] step = "save_results" -> ("detailed_statistics.csv" :> "csv")
      [] OTHER -> <<>>

\* statistical_tests.py main(), lines 246-251: the next step is called
StatStep ==
    /\ pc = "stat_steps" /\ i <= Len(StatSteps)
    /\ steps' = Append(steps, StatSteps[i])
    /\ files' = StatFiles(StatSteps[i]) @@ files
    /\ i' = i + 1
    /\ pc' = IF i = Len(StatSteps) THEN "done" ELSE pc
    /\ UNCHANGED <<df, exc, period_stats, json_out, ret, change_data, growth_data,
                   city_timeseries, city_growth, cagr_data, arg, out,
                   prev, tasks, selected, results>>

\* display_results.py display_analysis_results, lines 15-23: the results file
\* is read, or its absence is reported
DisplayMain ==
    /\ pc = "display_results"
    /\ IF ResultsPath \in DOMAIN files
       THEN /\ city_timeseries' = files[ResultsPath]
            /\ steps' = Append(steps, "display_analysis_results")
            /\ pc' = "display"
       ELSE pc' = "done" /\ UNCHANGED <<city_timeseries, steps>>
    /\ UNCHANGED <<df, exc, i, period_stats, json_out, ret, change_data,
                   growth_data, city_growth, cagr_data, arg, out,
                   files, prev, tasks, selected, results>>

ScriptsNext ==
    AnalysisMain \/ Next \/ StatMain \/ StatStep \/ DisplayMain \/ DisplayCagr

SpecScripts == ScriptsInit /\ [][ScriptsNext]_vars

-----------------------------------------------------------------------------
(* The year filters of the figures: create_presentation_figures.py excludes  *)
(* 2014, english_visualization.py keeps 2007, 2012 and 2021.  The overview   *)
(* table and the city growth chart of create_presentation_figures.py have no *)
(* year filter and are not part of this specification.                       *)

MaxFigureRows == 2

\* datasets of numeric counts >= 1; 2016 stands for a year no script names,
\* and the region "none" for a region that region_map maps to NaN
FigureDatasets ==
    UNION { [1..n -> { [cityName |-> "Koshigaya", year |-> y, region |-> g,
                        establishments |-> Num(v), employees |-> Num(1)] :
                        y \in {2007, 2012, 2014, 2016, 2021},
                        g \in {"Kanto", "none"}, v \in 1..MaxVal }] :
            n \in 0..MaxFigureRows }

\* df[df['year'] != 2014]: the index labels of the rows kept
Exclude2014(d) ==
    SelectSeq([j \in DOMAIN d |-> j], LAMBDA j : d[j].year # 2014)

\* df[df['year'].isin([2007, 2012, 2021])]
ThreePoint(d) ==
    SelectSeq([j \in DOMAIN d |-> j], LAMBDA j : d[j].year \in {2007, 2012, 2021})

RECURSIVE SumSeq(_)
SumSeq(values) ==
    IF values = <<>> THEN Num(0)
    ELSE Sub(SumSeq(Tail(values)), Neg(Head(values)))

\* Series.mean() of numbers; NaN for no value
Mean(values) == NpDiv(SumSeq(values), Num(Len(values)))

\* d.loc[index].groupby('year')[col].mean()
YearlyMean(d, index, col) ==
    [y \in { d[j].year : j \in Range(index) } |->
        Mean([n \in DOMAIN SelectSeq(index, LAMBDA j : d[j].year = y) |->
                 d[SelectSeq(index, LAMBDA j : d[j].year = y)[n]][col]])]

FigureInit ==
    /\ df \in FigureDatasets
    /\ pc \in {"create_presentation_figures", "english_visualization"}
    /\ exc = "none" /\ i = 1
    /\ period_stats = <<>> /\ json_out = "unwritten" /\ ret = <<>>
    /\ change_data = <<>> /\ growth_data = <<>> /\ city_timeseries = <<>>
    /\ city_growth = <<>> /\ cagr_data = <<>> /\ arg = <<>> /\ out = <<>>
    /\ files = <<>> /\ steps = <<>> /\ prev = <<>> /\ tasks = <<>> /\ selected = <<>>
    /\ results = <<>>

FigureFrame ==
    UNCHANGED <<df, exc, i, period_stats, json_out, ret, change_data, growth_data,
                city_timeseries, city_growth, cagr_data, arg, out,
                files, steps, prev, tasks, results>>

\* create_time_series_chart, lines 92-98
TimeSeriesChart ==
    /\ pc = "create_presentation_figures"
    /\ LET index == Exclude2014(df)
       IN  selected' = ("create_time_series_chart" :>
                           [index |-> index,
                            establishments |-> YearlyMean(df, index, "establishments"),
                            employees |-> YearlyMean(df, index, "employees")])
                       @@ selected
    /\ pc' = "create_regional_comparison"
    /\ FigureFrame

\* create_regional_comparison, lines 132-134: the rows of the box plots
RegionalComparison ==
    /\ pc = "create_regional_comparison"
    /\ selected' = ("create_regional_comparison" :>
                        [index |-> SelectSeq(Exclude2014(df),
                                             LAMBDA j : df[j].region # "none")])
                    @@ selected
    /\ pc' = "create_statistics_summary"
    /\ FigureFrame

\* create_statistics_summary, lines 214-217: count and mean of describe()
StatisticsSummary ==
    /\ pc = "create_statistics_summary"
    /\ LET index == Exclude2014(df)
       IN  selected' = ("create_statistics_summary" :>
                           [index |-> index,
                            count |-> Len(index),
                            mean |-> Mean([n \in DOMAIN index |->
                                              df[index[n]].establishments])])
                       @@ selected
    /\ pc' = "create_efficiency_chart"
    /\ FigureFrame

\* create_efficiency_chart, lines 232-239
EfficiencyChart ==
    /\ pc = "create_efficiency_chart"
    /\ LET df_eff == [j \in DOMAIN df |->
                         ("efficiency" :> NpDiv(df[j].employees, df[j].establishments))
                         @@ df[j]]
           index == Exclude2014(df_eff)
       IN  selected' = ("create_efficiency_chart" :>
                           [index |-> index,
                            efficiency |-> YearlyMean(df_eff, index, "efficiency")])
                       @@ selected
    /\ pc' = "done"
    /\ FigureFrame

\* english_visualization.py create_time_series_figure, lines 37-46
EnglishTimeSeries ==
    /\ pc = "english_visualization"
    /\ LET index == ThreePoint(df)
       IN  selected' = ("create_time_series_figure" :>
                           [index |-> index,
                            establishments |-> YearlyMean(df, index, "establishments"),
                            employees |-> YearlyMean(df, index, "employees")])
                       @@ selected
    /\ pc' = "done"
    /\ FigureFrame

FigureNext ==
    \/ TimeSeriesChart \/ RegionalComparison \/ StatisticsSummary
    \/ EfficiencyChart \/ EnglishTimeSeries

SpecFigures == FigureInit /\ [][FigureNext]_vars

-----------------------------------------------------------------------------
(* thesis_key_findings.py detect_outlier_cities: the API observation of a    *)
(* city against the mean of its CSV observations.  The rounded fields        *)
(* csv_avg_establishments and ratio of an outlier entry are not modelled.    *)

MaxOutlierRows == 3

\* establishment counts that put the ratio on, between and beyond the two
\* thresholds 3 and 0.3: 3/1, 1/3, 3/10, 10/1, 1/10
OutlierVals == {Num(0), Num(1), Num(3), Num(10)}

OutlierDatasets ==
    UNION { [1..n -> { [cityName |-> c, dataSource |-> s, establishments |-> v] :
                        c \in JsonCities, s \in {"API", "CSV"}, v \in OutlierVals }] :
            n \in 0..MaxOutlierRows }

\* a > b and a < b as numpy evaluates them: False for NaN
Greater(a, b) == Positive(Sub(a, b))
Less(a, b) == Negative(Sub(a, b))

\* detect_outlier_cities, line 127
api_data == Where(df, "dataSource", "API")

OutlierInit ==
    /\ df \in OutlierDatasets
    /\ pc = "detect_outlier_cities"
    /\ exc = "none" /\ i = 1
    /\ period_stats = <<>> /\ json_out = "unwritten" /\ ret = <<>>
    /\ change_data = <<>> /\ growth_data = <<>> /\ city_timeseries = <<>>
    /\ city_growth = <<>> /\ cagr_data = <<>> /\ arg = <<>> /\ out = <<>>
    /\ files = <<>> /\ steps = <<>> /\ prev = <<>> /\ tasks = <<>> /\ selected = <<>>
    /\ results = ("outliers" :> <<>>)

OutlierFrame ==
    UNCHANGED <<df, exc, period_stats, json_out, ret, change_data, growth_data,
                city_timeseries, city_growth, cagr_data, arg, out,
                files, steps, prev, tasks, selected>>

\* detect_outlier_cities, lines 141-146: the outlier type of a ratio, "none"
\* when the city is not flagged
OutlierType(ratio) ==
    IF Greater(ratio, Num(3)) THEN "high"
    ELSE IF Less(ratio, Rat(3, 10)) THEN "low"
    ELSE "none"

\* detect_outlier_cities, lines 130-147: one iteration of the city loop
OutlierCity ==
    /\ pc = "detect_outlier_cities"
    /\ i <= Len(Unique(Column(api_data, "cityName")))
    /\ LET city == Unique(Column(api_data, "cityName"))[i]
           city_api == Where(api_data, "cityName", city)
           city_csv == Where(Where(df, "cityName", city), "dataSource", "CSV")
           api_est == city_api[1].establishments
           csv_avg_est == Mean(Column(city_csv, "establishments"))
           ratio == NpDiv(api_est, csv_avg_est)
       IN  results' =
              IF Len(city_csv) > 0 /\ OutlierType(ratio) # "none"
              THEN [results EXCEPT !.outliers =
                       (city :> [api_establishments |-> api_est,
                                 outlier_type |-> OutlierType(ratio)]) @@ @]
              ELSE results
    /\ i' = i + 1
    /\ UNCHANGED pc
    /\ OutlierFrame

\* detect_outlier_cities, lines 149-153: the findings are stored
OutlierDone ==
    /\ pc = "detect_outlier_cities"
    /\ i > Len(Unique(Column(api_data, "cityName")))
    /\ results' = ("outlier_analysis" :>
                      [outlier_cities |-> results.outliers,
                       outlier_count |-> Cardinality(DOMAIN results.outliers)])
    /\ pc' = "done"
    /\ UNCHANGED i
    /\ OutlierFrame

OutlierNext == OutlierCity \/ OutlierDone

SpecOutliers == OutlierInit /\ [][OutlierNext]_vars

-----------------------------------------------------------------------------
(* comprehensive_analysis.py: ComprehensiveRetailAnalysis.run_full_analysis. *)
(* Of each results section the entries named below are modelled; the        *)
(* medians, the regression slopes, the F statistic and the cluster centers  *)
(* are not.  A number in the results is a float as above or one of the      *)
(* leaves Whole, Bool and Null.                                             *)

MaxFullRows == 3

DataPath == "unified_retail_dataset.json"
SummaryPath == "analysis_summary.json"

Whole(v) == [k |-> "int", n |-> v, d |-> 1, r |-> 1]
Bool(b) == [k |-> "bool", n |-> IF b THEN 1 ELSE 0, d |-> 1, r |-> 1]
\* None, written as null by json.dump
Null == [k |-> "null", n |-> 0, d |-> 1, r |-> 1]

\* three cities of the dataset with their regions; sales and salesArea are
\* null, as in the rows of the CSV source
FullRegion ==
    ("Koshigaya-shi" :> "Kanto") @@ ("Gifu-shi" :> "Chubu") @@ ("Otsu-shi" :> "Kinki")
FullRows ==
    { [cityName |-> c, region |-> FullRegion[c], year |-> y,
       establishments |-> Num(v), employees |-> Num(1),
       sales |-> NaN, salesArea |-> NaN] :
        c \in DOMAIN FullRegion, y \in {2007, 2012, 2021}, v \in 0..1 }
FullDatasets == UNION { [1..n -> FullRows] : n \in 0..MaxFullRows }

\* a file that exists and cannot be opened for writing
ReadOnly == [readonly |-> TRUE]
IsReadOnly(file) == DOMAIN file = {"readonly"}

\* the file systems run_full_analysis may start in: the dataset exists or
\* not, and a results file may exist without write permission
FullFiles ==
    { data @@ ro :
        data \in {<<>>} \cup { (DataPath :> d) : d \in FullDatasets },
        ro \in {<<>>, (ResultsPath :> ReadOnly), (SummaryPath :> ReadOnly)} }

\* round(x, 2) with p = 100, round(x, 1) with p = 10: the nearest multiple of
\* 1/p (a tie goes up); NaN, inf and the symbolic values are their own rounding
RoundTo(x, p) ==
    IF x.k = "num" THEN Rat((2 * x.n * p + x.d) \div (2 * x.d), p) ELSE x

\* Series.mean() and Series.sum(): nulls are skipped
DropNa(values) == SelectSeq(values, LAMBDA v : ~IsNaN(v))
SkipNaMean(values) == Mean(DropNa(values))

\* Series.std(): NaN for fewer than two values, else the square root of the
\* sample variance n/d, kept in that form (kind "sqrt") when it is not 0
Std(values) ==
    LET x == DropNa(values)
        n == Len(x)
        squares == [j \in DOMAIN x |-> Mul(x[j], x[j])]
        var == NpDiv(Sub(Mul(Num(n), SumSeq(squares)), Mul(SumSeq(x), SumSeq(x))),
                     Num(n * (n - 1)))
    IN  IF n < 2 THEN NaN
        ELSE IF IsInfinite(var) \/ IsNaN(var) THEN NaN
        ELSE IF IsZero(var) THEN Num(0)
        ELSE [var EXCEPT !.k = "sqrt", !.r = 2]

\* DataFrame.corr() of two columns over the rows where both are numbers: NaN
\* when a column does not vary there; the value sign * sqrt(n/d) is kept in
\* that form (kind "corr") unless it is 0, 1 or -1
Corr(d, a, b) ==
    LET both == SelectSeq(d, LAMBDA row : IsNum(row[a]) /\ IsNum(row[b]))
        n == Num(Len(both))
        x == Column(both, a)
        y == Column(both, b)
        xy == [j \in DOMAIN both |-> Mul(x[j], y[j])]
        xx == [j \in DOMAIN both |-> Mul(x[j], x[j])]
        yy == [j \in DOMAIN both |-> Mul(y[j], y[j])]
        cov == Sub(Mul(n, SumSeq(xy)), Mul(SumSeq(x), SumSeq(y)))
        vx == Sub(Mul(n, SumSeq(xx)), Mul(SumSeq(x), SumSeq(x)))
        vy == Sub(Mul(n, SumSeq(yy)), Mul(SumSeq(y), SumSeq(y)))
        rsq == NpDiv(Mul(cov, cov), Mul(vx, vy))
        sign == IF Negative(cov) THEN -1 ELSE 1
    IN  IF IsZero(vx) \/ IsZero(vy) THEN NaN
        ELSE IF IsZero(cov) THEN Num(0)
        ELSE IF rsq = Num(1) THEN Num(sign)
        ELSE [k |-> "corr", n |-> sign * rsq.n, d |-> rsq.d, r |-> 2]

\* abs(corr_val) > 0.7 without the abs
StrongSigned(corr_val) ==
    \/ corr_val.k = "num" /\ 10 * corr_val.n > 7 * corr_val.d
    \/ corr_val.k = "corr" /\ corr_val.n > 0 /\ 100 * corr_val.n > 49 * corr_val.d

\* correlation_analysis, line 290: abs(corr_val) > 0.7, False for NaN
Strong(corr_val) ==
    \/ corr_val.k = "num" /\ 10 * Abs(corr_val.n) > 7 * corr_val.d
    \/ corr_val.k = "corr" /\ 100 * Abs(corr_val.n) > 49 * corr_val.d

\* correlation_analysis, lines 281-292: the strong correlations of a
\* correlation matrix, by pair key
strong_correlations(available_cols, corr_matrix) ==
    LET pairs == { <<a, b>> \in (DOMAIN available_cols) \X (DOMAIN available_cols) :
                     a < b /\ Strong(corr_matrix[available_cols[a]][available_cols[b]]) }
    IN  [pair \in { available_cols[p[1]] \o "_vs_" \o available_cols[p[2]] : p \in pairs } |->
            LET p == CHOOSE q \in pairs :
                        available_cols[q[1]] \o "_vs_" \o available_cols[q[2]] = pair
            IN  RoundTo(corr_matrix[available_cols[p[1]]][available_cols[p[2]]], 1000)]

\* save_results, lines 428-442: a leaf is a number, a dictionary is mapped
\* value by value
IsLeaf(obj) == DOMAIN obj = {"k", "n", "d", "r"}
RECURSIVE make_json_safe(_)
make_json_safe(obj) ==
    IF IsLeaf(obj)
    THEN IF IsNaN(obj) THEN Null ELSE obj
    ELSE [key \in DOMAIN obj |-> make_json_safe(obj[key])]

\* save_results, line 457, and the format '.1f': the percentage rounded to
\* one decimal; a dataset without rows raises ZeroDivisionError
data_completeness(d) ==
    RoundTo(Mul(PyDiv(Num(Len(d)),
                      Num(Cardinality(Range(Column(d, "cityName")))
                          * Cardinality(Range(Column(d, "year"))))),
                Num(100)), 10)

FullInit ==
    /\ files \in FullFiles
    /\ df = <<>>
    /\ pc = "load_data" /\ exc = "none" /\ i = 1
    /\ period_stats = <<>> /\ json_out = "unwritten" /\ ret = <<>>
    /\ change_data = <<>> /\ growth_data = <<>> /\ city_timeseries = <<>>
    /\ city_growth = <<>> /\ cagr_data = <<>> /\ arg = <<>> /\ out = <<>>
    /\ steps = <<>> /\ prev = <<>> /\ tasks = <<>> /\ selected = <<>>
    /\ results = <<>>

FullFrame ==
    UNCHANGED <<i, period_stats, json_out, ret, change_data, growth_data,
                city_timeseries, city_growth, cagr_data, arg, out,
                prev, tasks, selected>>

\* run_full_analysis, lines 510-512: the exception of a step is printed and
\* raised again
Reraise(e) == exc' = e /\ pc' = "raised"

\* load_data, lines 30-50: open() needs the file, and the DataFrame of an
\* empty list has no 'year' column
comprehensive_load_data ==
    /\ pc = "load_data"
    /\ steps' = Append(steps, "load_data")
    /\ IF DataPath \notin DOMAIN files
       THEN Reraise("FileNotFoundError") /\ UNCHANGED df
       ELSE IF files[DataPath] = <<>>
       THEN Reraise("KeyError") /\ UNCHANGED df
       ELSE df' = files[DataPath] /\ pc' = "descriptive_statistics" /\ UNCHANGED exc
    /\ UNCHANGED <<files, results>>
    /\ FullFrame

\* descriptive_statistics, lines 59-61: count, mean and std of
\* describe()
descriptive_statistics ==
    /\ pc = "descriptive_statistics"
    /\ steps' = Append(steps, "descriptive_statistics")
    /\ LET values == Column(df, "establishments")
       IN  results' = ("descriptive" :>
                          [overall_statistics |->
                              [establishments |->
                                  [count |-> Whole(Len(DropNa(values))),
                                   mean |-> SkipNaMean(values),
                                   std |-> Std(values)]]])
                      @@ results
    /\ pc' = "time_series_analysis"
    /\ UNCHANGED <<df, exc, files>>
    /\ FullFrame

\* time_series_analysis, lines 154-182: city_timeseries; the rows of a city
\* are taken from the DataFrame sorted by year
time_series_analysis ==
    /\ pc = "time_series_analysis"
    /\ steps' = Append(steps, "time_series_analysis")
    /\ \E sorted \in SortValuesYear(df) :
          results' = ("timeseries" :>
                         [city_timeseries |->
                             [city \in { c \in Range(Column(df, "cityName")) :
                                           Len(Where(df, "cityName", c)) >= 3 } |->
                                 city_trends(Where(sorted, "cityName", city))]])
                     @@ results
    /\ pc' = "regional_comparison"
    /\ UNCHANGED <<df, exc, files>>
    /\ FullFrame

\* regional_comparison, lines 191-218: the regional averages, and the ANOVA
\* results when there are more than two regions; f_oneway yields NaN when no
\* region has two values, and its value is not modelled otherwise
regional_comparison ==
    /\ pc = "regional_comparison"
    /\ steps' = Append(steps, "regional_comparison")
    /\ LET regions == Unique(Column(df, "region"))
           regional_averages ==
               [col \in {"establishments", "sales"} |->
                   [region \in Range(regions) |->
                       RoundTo(SkipNaMean(Column(Where(df, "region", region), col)), 100)]]
       IN  \E significant \in BOOLEAN :
              /\ (Len(regions) > 2 /\ Len(df) > Len(regions)) \/ ~significant
              /\ results' = ("regional" :>
                    ([regional_averages |-> regional_averages] @@
                     IF Len(regions) > 2
                     THEN [anova_results |->
                              [col \in {"establishments", "employees"} |->
                                  [f_statistic |-> IF Len(df) > Len(regions)
                                                   THEN Num(1) ELSE NaN,
                                   significant |-> Bool(significant)]]]
                     ELSE <<>>))
                 @@ results
    /\ pc' = "cluster_analysis"
    /\ UNCHANGED <<df, exc, files>>
    /\ FullFrame

\* cluster_analysis, lines 226-263: with fewer than three cities the function
\* returns before it stores anything; the labels of KMeans have more than one
\* value when the cities do not all have the same features
cluster_analysis ==
    /\ pc = "cluster_analysis"
    /\ steps' = Append(steps, "cluster_analysis")
    /\ LET cities == Range(Column(df, "cityName"))
           features == { <<SkipNaMean(Column(Where(df, "cityName", c), "establishments")),
                           SkipNaMean(Column(Where(df, "cityName", c), "employees"))>> :
                         c \in cities }
           \* range(2, min(5, len(city_features)))
           tried == 2..((IF Cardinality(cities) < 5 THEN Cardinality(cities) ELSE 5) - 1)
       IN  results' =
              IF Cardinality(cities) < 3 THEN results
              ELSE ("clustering" :>
                       [key \in { "k_" \o ToString(n_clusters) :
                                    n_clusters \in IF Cardinality(features) > 1
                                                   THEN tried ELSE {} } |->
                           [n_clusters |->
                               Whole(CHOOSE n \in tried : "k_" \o ToString(n) = key)]])
                   @@ results
    /\ pc' = "correlation_analysis"
    /\ UNCHANGED <<df, exc, files>>
    /\ FullFrame

\* correlation_analysis, lines 267-296
correlation_analysis ==
    /\ pc = "correlation_analysis"
    /\ steps' = Append(steps, "correlation_analysis")
    /\ LET available_cols == Metrics
           corr_matrix == [a \in Range(available_cols) |->
                              [b \in Range(available_cols) |-> Corr(df, a, b)]]
       IN  results' = ("correlation" :>
                          [correlation_matrix |-> corr_matrix,
                           strong_correlations |->
                               strong_correlations(available_cols, corr_matrix)])
                      @@ results
    /\ pc' = "efficiency_analysis"
    /\ UNCHANGED <<df, exc, files>>
    /\ FullFrame

\* efficiency_analysis, lines 298-340: the DataFrame gets the column
\* employees_per_establishment; the mean of each city is stored
efficiency_analysis ==
    /\ pc = "efficiency_analysis"
    /\ steps' = Append(steps, "efficiency_analysis")
    /\ df' = [j \in DOMAIN df |->
                 ("employees_per_establishment" :>
                     NpDiv(df[j].employees, df[j].establishments)) @@ df[j]]
    /\ results' = ("efficiency" :>
                      [city_efficiency |->
                          [city \in Range(Column(df, "cityName")) |->
                              LET mean == RoundTo(SkipNaMean(Column(Where(df', "cityName", city),
                                                                    "employees_per_establishment")), 100)
                              IN  [mean |-> IF IsNaN(mean) THEN Null ELSE mean]]])
                  @@ results
    /\ pc' = "generate_visualizations"
    /\ UNCHANGED <<exc, files>>
    /\ FullFrame

\* generate_visualizations, lines 342-418: the heat map needs two regions
generate_visualizations ==
    /\ pc = "generate_visualizations"
    /\ steps' = Append(steps, "generate_visualizations")
    /\ files' = (IF Cardinality(Range(Column(df, "region"))) > 1
                 THEN ("regional_heatmap.png" :> "png") ELSE <<>>)
                @@ ("comprehensive_analysis.png" :> "png") @@ files
    /\ pc' = "save_results"
    /\ UNCHANGED <<df, exc, results>>
    /\ FullFrame

\* save_results, lines 420-448: the results are made JSON safe and written
save_results ==
    /\ pc = "save_results"
    /\ steps' = Append(steps, "save_results")
    /\ IF ResultsPath \in DOMAIN files /\ IsReadOnly(files[ResultsPath])
       THEN Reraise("PermissionError") /\ UNCHANGED files
       ELSE /\ files' = (ResultsPath :> make_json_safe(results)) @@ files
            /\ pc' = "save_summary"
            /\ UNCHANGED exc
    /\ UNCHANGED <<df, results>>
    /\ FullFrame

\* save_results, lines 450-469: the summary is built and written
save_summary ==
    /\ pc = "save_summary"
    /\ LET completeness == data_completeness(df)
           key_findings ==
               [avg_establishments |->
                    RoundTo(SkipNaMean(Column(df, "establishments")), 10),
                efficiency_ratio |->
                    RoundTo(NpDiv(SumSeq(DropNa(Column(df, "employees"))),
                                  SumSeq(DropNa(Column(df, "establishments")))), 100)]
           summary ==
               [analysis_overview |->
                   [total_records |-> Whole(Len(df)),
                    cities_analyzed |-> Whole(Cardinality(Range(Column(df, "cityName")))),
                    data_completeness |-> completeness]]
               @@ IF "descriptive" \in DOMAIN results
                  THEN [key_findings |-> key_findings] ELSE <<>>
       IN  IF completeness.k = "raise"
           THEN Reraise("ZeroDivisionError") /\ UNCHANGED files
           ELSE IF SummaryPath \in DOMAIN files /\ IsReadOnly(files[SummaryPath])
           THEN Reraise("PermissionError") /\ UNCHANGED files
           ELSE /\ files' = (SummaryPath :> summary) @@ files
                /\ pc' = "done"
                /\ UNCHANGED exc
    /\ UNCHANGED <<df, results, steps>>
    /\ FullFrame

FullNext ==
    \/ comprehensive_load_data \/ descriptive_statistics \/ time_series_analysis
    \/ regional_comparison \/ cluster_analysis \/ correlation_analysis
    \/ efficiency_analysis \/ generate_visualizations \/ save_results
    \/ save_summary

SpecFull == FullInit /\ [][FullNext]_vars

-----------------------------------------------------------------------------
(* correlation_analysis of comprehensive_analysis.py on its own, over       *)
(* datasets whose columns vary                                              *)

MaxCorrRows == 3

CorrRows ==
    { [establishments |-> Num(a), employees |-> Num(b), sales |-> c, salesArea |-> NaN] :
        a \in 0..2, b \in 0..1, c \in {NaN, Num(0), Num(1)} }
\* a correlation does not depend on the order of the rows: each collection of
\* rows is taken in one order, by the values of the row
RowKey(row) ==
    6 * row.establishments.n + 3 * row.employees.n
    + (IF IsNaN(row.sales) THEN 2 ELSE row.sales.n)
CorrDatasets ==
    UNION { { d \in [1..n -> CorrRows] :
                \A j \in 1..(n - 1) : RowKey(d[j]) <= RowKey(d[j + 1]) } :
            n \in 0..MaxCorrRows }

CorrInit ==
    /\ df \in CorrDatasets
    /\ pc = "correlation_analysis" /\ exc = "none" /\ i = 1
    /\ period_stats = <<>> /\ json_out = "unwritten" /\ ret = <<>>
    /\ change_data = <<>> /\ growth_data = <<>> /\ city_timeseries = <<>>
    /\ city_growth = <<>> /\ cagr_data = <<>> /\ arg = <<>> /\ out = <<>>
    /\ files = <<>> /\ steps = <<>> /\ prev = <<>> /\ tasks = <<>> /\ selected = <<>>
    /\ results = <<>>

CorrNext == correlation_analysis

SpecCorr == CorrInit /\ [][CorrNext]_vars

-----------------------------------------------------------------------------
(* The data completeness of the summary of save_results and of the overview  *)
(* table of create_presentation_figures.py, each over the dataset as loaded  *)

MaxOverviewRows == 4

OverviewPath == "table1_data_overview.txt"

OverviewDatasets ==
    UNION { [1..n -> { [cityName |-> c, year |-> y] :
                        c \in JsonCities, y \in {2007, 2012, 2014, 2021} }] :
            n \in 0..MaxOverviewRows }

OverviewInit ==
    /\ df \in OverviewDatasets
    /\ pc \in {"save_results", "create_overview_table"}
    /\ exc = "none" /\ i = 1
    /\ period_stats = <<>> /\ json_out = "unwritten" /\ ret = <<>>
    /\ change_data = <<>> /\ growth_data = <<>> /\ city_timeseries = <<>>
    /\ city_growth = <<>> /\ cagr_data = <<>> /\ arg = <<>> /\ out = <<>>
    /\ files = <<>> /\ steps = <<>> /\ prev = <<>> /\ tasks = <<>> /\ selected = <<>>
    /\ results = <<>>

\* create_overview_table, lines 74-84: the totals written under the table;
\* without a city the division of line 84 raises ZeroDivisionError
create_overview_table ==
    /\ pc = "create_overview_table"
    /\ steps' = Append(steps, "create_overview_table")
    /\ LET nunique == Cardinality(Range(Column(df, "cityName")))
           completeness ==
               RoundTo(Mul(PyDiv(Num(Len(df)), Num(nunique * 4)), Num(100)), 10)
       IN  IF completeness.k = "raise"
           THEN /\ files' = (OverviewPath :> [total_records |-> Whole(Len(df)),
                                              cities |-> Whole(nunique)]) @@ files
                /\ Reraise("ZeroDivisionError")
           ELSE /\ files' = (OverviewPath :> [total_records |-> Whole(Len(df)),
                                              cities |-> Whole(nunique),
                                              data_completeness |-> completeness])
                            @@ files
                /\ pc' = "create_time_series_chart"
                /\ UNCHANGED exc
    /\ UNCHANGED <<df, results>>
    /\ FullFrame

OverviewNext == save_results \/ save_summary \/ create_overview_table

SpecOverview == OverviewInit /\ [][OverviewNext]_vars

-----------------------------------------------------------------------------
(* Properties *)

Max(S) == CHOOSE x \in S : \A y \in S : y <= x
Min(S) == CHOOSE x \in S : \A y \in S : x <= y

\* every count of a unified_retail_dataset.json dataset is a number
NoNulls(d) ==
    \A j \in DOMAIN d : IsNum(d[j].establishments) /\ IsNum(d[j].employees)

\* the values a column has in the observations of a city and year
ValuesAt(d, city, year, col) ==
    { row[col] : row \in Range(Where(Where(d, "cityName", city), "year", year)) }

GrowthFields ==
    { <<"establishments_growth", "establishments">>,
      <<"employees_growth", "employees">> }
CagrFields ==
    { <<"est_cagr", "establishments">>, <<"emp_cagr", "employees">> }

\* the rows of growth_data written by create_city_growth_chart
IsGrowthRow(row) == "est_cagr" \notin DOMAIN row /\ "emp_cagr" \notin DOMAIN row

\* C1: over a dataset without nulls, a percentage change of the 2007-2021
\* growth chart is omitted exactly when its start value is 0, and an emitted
\* percentage change is never inf or NaN
C1_PercentChangeOmittedIffZeroStart ==
    NoNulls(df) =>
        \A row \in Range(growth_data) : IsGrowthRow(row) =>
            \A f \in GrowthFields :
                LET starts == ValuesAt(df, row.city, 2007, f[2])
                IN  /\ (\A v \in starts : IsZero(v)) => f[1] \notin DOMAIN row
                    /\ (\A v \in starts : ~IsZero(v)) => f[1] \in DOMAIN row
                    /\ f[1] \in DOMAIN row => IsFinite(row[f[1]])

\* the dataset name of the city of a CAGR row (english_visualization.py writes
\* the mapped name)
RawCity(row) ==
    IF row.city \in JsonCities THEN row.city
    ELSE CHOOSE c \in DOMAIN city_mapping : city_mapping[c] = row.city

\* C2: over a dataset without nulls, a CAGR of the 2007-2021 CAGR charts is
\* present exactly when the start and the end value are both positive
C2_CagrOmittedIffNotPositive ==
    NoNulls(df) =>
        \A row \in Range(growth_data) : ~IsGrowthRow(row) =>
            \A f \in CagrFields :
                LET start == Where(Where(df, "cityName", RawCity(row)), "year", 2007)[1][f[2]]
                    end == Where(Where(df, "cityName", RawCity(row)), "year", 2021)[1][f[2]]
                IN  f[1] \in DOMAIN row <=> (Positive(start) /\ Positive(end))

\* at most one observation per (city, year)
WellFormed(d) ==
    \A a, b \in DOMAIN d :
        (d[a].cityName = d[b].cityName /\ d[a].year = d[b].year) => a = b

\* the calendar years between the first and the last observation of a city
YearSpan(city) ==
    LET years == Range(Column(Where(df, "cityName", city), "year"))
    IN  Max(years) - Min(years)

IsCagr(v) == v.k \in {"cagr", "cagr2"}
CagrKeys == {"establishments_cagr", "employees_cagr"}

\* C3: over a dataset with at most one observation per (city, year), the root
\* taken by every per-city CAGR is y_end - y_start, the calendar
\* years between the city's first and last observation
C3_CagrYearsAreCalendarYears ==
    WellFormed(df) =>
    /\ \A city \in DOMAIN city_timeseries :
          \A key \in DOMAIN city_timeseries[city] :
              IsCagr(city_timeseries[city][key]) =>
                  city_timeseries[city][key].r = YearSpan(city)
    /\ \A city \in DOMAIN city_growth :
          \A key \in CagrKeys :
              IsCagr(city_growth[city][key]) =>
                  city_growth[city][key].r = YearSpan(city)

\* C4: over a dataset with at most one observation per (city, year), a city
\* whose employees start or end value is not positive has no
\* employees CAGR in all_city_growth, and the display puts no CAGR where
\* city_timeseries has none
C4_AbsentCagrNotReportedAsZero ==
    WellFormed(df) =>
    /\ \A city \in DOMAIN city_growth :
          LET e == city_growth[city]
          IN  ~(Positive(e.initial_employees) /\ Positive(e.final_employees))
                  => "employees_cagr" \notin DOMAIN e
    /\ \A j \in DOMAIN cagr_data :
          LET trends == city_timeseries[cagr_data[j].city]
          IN  /\ "establishments_cagr" \notin DOMAIN trends
                    => "est_cagr" \notin DOMAIN cagr_data[j]
              /\ "employees_cagr" \notin DOMAIN trends
                    => "emp_cagr" \notin DOMAIN cagr_data[j]

\* create_period_comparison_table has ended, by a return or by an exception
TableEnded == pc \in {"graphs", "graph_loop", "done", "raised"}

CsvCities == Range(Unique(Column(df, "city")))

InStats(city, period) ==
    city \in DOMAIN period_stats /\ period \in DOMAIN period_stats[city]

\* C5: once the period table has ended, no exception was raised, a (city,
\* period) with a missing endpoint observation has no entry, and every (city,
\* period) with both endpoint observations has the entries of all metrics
C5_MissingPeriodSkippedOthersPresent ==
    TableEnded =>
        /\ exc = "none"
        /\ \A city \in CsvCities : \A period \in Range(Periods) :
              IF HasPeriod(Where(df, "city", city), period)
              THEN InStats(city, period)
                   /\ DOMAIN period_stats[city][period] = Range(Metrics)
              ELSE ~InStats(city, period)

\* the (city, metric, period) combinations with a missing endpoint observation
SkippedCombinations ==
    { c \in CsvCities \X Range(Metrics) \X Range(Periods) :
        ~HasPeriod(Where(df, "city", c[1]), c[3]) }

\* C6: the period table returns the result mapping together with the number
\* of combinations skipped for a missing endpoint observation
C6_SkipCountReturned ==
    pc \in {"graphs", "graph_loop", "done"} =>
        /\ Len(ret) = 2
        /\ ret[1] = period_stats
        /\ ret[2] = Cardinality(SkippedCombinations)

\* C7: no CAGR is computed for a city whose first and last observation are of
\* the same year
C7_NoCagrOverEmptyRange ==
    /\ \A city \in DOMAIN city_timeseries :
          YearSpan(city) = 0 => DOMAIN city_timeseries[city] \cap CagrKeys = {}
    /\ \A city \in DOMAIN city_growth :
          YearSpan(city) = 0 => DOMAIN city_growth[city] \cap CagrKeys = {}

\* C8: every entry of the period table has a non-null start and end value
C8_EmittedValuesNotNull ==
    \A city \in DOMAIN period_stats : \A period \in DOMAIN period_stats[city] :
        \A metric \in DOMAIN period_stats[city][period] :
            /\ IsNum(period_stats[city][period][metric].start)
            /\ IsNum(period_stats[city][period][metric].end)

\* C9: once the period table has ended, a metric with start value 0 and a
\* non-zero end value has an entry with change_abs = end - start and without
\* change_pct, and no division by zero was performed
C9_ZeroStartStillProduced ==
    TableEnded =>
        \A city \in CsvCities : \A period \in Range(Periods) :
            LET city_data == Where(df, "city", city)
            IN  HasPeriod(city_data, period) =>
                    \A metric \in Range(Metrics) :
                        LET start == start_data(city_data, period)[1][metric]
                            end == end_data(city_data, period)[1][metric]
                        IN  (IsZero(start) /\ IsNum(end) /\ ~IsZero(end)) =>
                                /\ exc # "ZeroDivisionError"
                                /\ InStats(city, period)
                                /\ period_stats[city][period][metric].change_abs
                                       = Num(end.n - start.n)
                                /\ "change_pct" \notin
                                       DOMAIN period_stats[city][period][metric]

\* (end - start) / start * 100 of two integers, start # 0
ExpectedPercent(start, end) == Rat((end - start) * 100, start)

CompoundsTo(start, cagr, years, end) ==
    IF IsCagr(cagr)
    THEN Pow(cagr.n, years) * Pow(start, cagr.r) = Pow(end, cagr.r) * Pow(cagr.d, years)
    ELSE /\ IsNum(cagr)
         /\ IF IsZero(cagr) THEN start = end
            ELSE Pow(100 * cagr.d + cagr.n, years) * start
                     = end * Pow(100 * cagr.d, years)

\* the value of a column in the only observation of a city and year
ValueAt(d, city, year, col) == CHOOSE v \in ValuesAt(d, city, year, col) : TRUE

CityYears(city) == Range(Column(Where(df, "cityName", city), "year"))

\* the CAGR keys with the column each is computed from
CagrColumns ==
    { <<"establishments_cagr", "establishments">>, <<"employees_cagr", "employees">> }

\* C11: over a dataset with at most one observation per (city, year), every
\* per-city CAGR of positive start and end values, compounded over the calendar
\* years y_end - y_start between the city's first and last observation,
\* reproduces the end value: start * (1 + cagr/100) ** (y_end - y_start) = end
C11_CagrCompoundsToEndValue ==
    WellFormed(df) =>
        \A city \in DOMAIN city_timeseries : \A f \in CagrColumns :
            LET start == ValueAt(df, city, Min(CityYears(city)), f[2])
                end == ValueAt(df, city, Max(CityYears(city)), f[2])
            IN  (f[1] \in DOMAIN city_timeseries[city] /\ YearSpan(city) > 0
                 /\ Positive(start) /\ Positive(end)) =>
                    CompoundsTo(start.n, city_timeseries[city][f[1]], YearSpan(city), end.n)

\* C12: for equal start and end values > 0, the period table has
\* change_abs = 0 and change_pct = 0, the change graph and the growth chart
\* have a percentage of 0, and the 14-year CAGR and the CAGR of a city with any
\* number of observations are 0
C12_NoChangeGivesZero ==
    (IsNum(arg[1]) /\ Positive(arg[1]) /\ arg[2] = arg[1]) =>
        /\ "table" \in DOMAIN out =>
              /\ out["table"].change_abs = Num(0)
              /\ out["table"].change_pct = Num(0)
        /\ "graph" \in DOMAIN out => out["graph"].change_pct = Num(0)
        /\ "chart" \in DOMAIN out => out["chart"].establishments_growth = Num(0)
        /\ "cagr" \in DOMAIN out => out["cagr"].est_cagr = Num(0)
        /\ "series" \in DOMAIN out =>
              /\ "establishments_cagr" \in DOMAIN out["series"]
              /\ out["series"]["establishments_cagr"] = Num(0)

\* every formula has been applied to the same positive start and end value
C12_Witness ==
    /\ IsNum(arg[1]) /\ Positive(arg[1]) /\ arg[2] = arg[1]
    /\ DOMAIN out = {"table", "graph", "chart", "cagr", "series"}
    /\ out["table"].change_pct = Num(0)
    /\ out["series"]["establishments_cagr"] = Num(0)

\* C13: a second run of analysis.py on the same input file returns the same
\* period_stats mapping, writes the same period_comparison.json and ends the
\* same way as the first, whatever the day of either run
C13_SameInputSameMapping ==
    (prev # <<>> /\ pc \in {"done", "raised"}) =>
        /\ exc = prev.exc
        /\ ret = prev.ret
        /\ json_out = prev.json_out

\* two runs on different days have ended with the same non-empty mapping
C13_Witness ==
    /\ prev # <<>> /\ pc = "done"
    /\ prev.md # <<>> /\ prev.md[1].date # files[MdPath].date
    /\ ret = prev.ret /\ ret[1] # <<>>
    /\ \E city \in DOMAIN ret[1] : ret[1][city] # <<>>

\* C14: the in-memory dataset is read-only: in every step of analysis.py it
\* equals the dataset that load_data() read from the input file, column for
\* column and value for value
C14_DatasetReadOnly == df = files[CsvPath]

\* the observations of a city with duplicates resolved first-wins: for every
\* year the first observation in dataset order, by ascending year
FirstWins(city_data) ==
    LET years == Range(Column(city_data, "year"))
        nth(n) == CHOOSE y \in years : Cardinality({ z \in years : z < y }) = n - 1
    IN  [n \in 1..Cardinality(years) |-> Where(city_data, "year", nth(n))[1]]

\* C15: the per-city trends are those of the city's observations with
\* duplicates of a (city, year) resolved first-wins: duplicates change neither
\* the start and end value nor the number of years of the CAGR
C15_DuplicatesFirstWins ==
    \A city \in DOMAIN city_timeseries :
        LET first == FirstWins(Where(df, "cityName", city))
        IN  /\ Len(first) >= 3
            /\ city_timeseries[city] = city_trends(first)

\* at most one observation per (city, year) in retail_data_with_ratios.csv
WellFormedCsv(d) ==
    \A a, b \in DOMAIN d :
        (d[a].city = d[b].city /\ d[a].year = d[b].year) => a = b

\* the observation of a city and year, whatever the order of the rows
ObservationAt(city, year) ==
    CHOOSE row \in Range(df) : row.city = city /\ row.year = year

OwnPeriods(city) ==
    { period \in Range(Periods) :
        \A year \in {PeriodStart(period), PeriodEnd(period)} :
            \E row \in Range(df) : row.city = city /\ row.year = year }

\* the entries of a city as its own observations alone determine them
OwnStats(city) ==
    [period \in OwnPeriods(city) |->
        [metric \in Range(Metrics) |->
            MetricChange(ObservationAt(city, PeriodStart(period))[metric],
                         ObservationAt(city, PeriodEnd(period))[metric])]]

\* the city's own observations have a start value 0
OwnZeroStart(city) ==
    \E period \in OwnPeriods(city) : \E metric \in Range(Metrics) :
        IsZero(ObservationAt(city, PeriodStart(period))[metric])

\* C16: over a dataset with at most one observation per (city, year), once the
\* period table has ended the returned entries of a city are those its own
\* observations determine, whatever the order of the rows and whatever the
\* observations of the other cities
C16_CityDependsOnOwnRows ==
    (WellFormedCsv(df) /\ TableEnded) =>
        \A city \in CsvCities : ~OwnZeroStart(city) =>
            /\ Len(ret) > 0
            /\ city \in DOMAIN ret[1]
            /\ ret[1][city] = OwnStats(city)

\* C17: over a dataset with at most one observation per (city, year), once the
\* city loop is over every city of three or more observations whose
\* employees start and end values are positive has an employees CAGR, whatever
\* its establishments values are
C17_MetricsIndependent ==
    (WellFormed(df) /\ pc = "done") =>
        \A city \in Range(Column(df, "cityName")) :
            LET first == FirstWins(Where(df, "cityName", city))
            IN  (/\ Len(first) >= 3
                 /\ Positive(first[1].employees)
                 /\ Positive(first[Len(first)].employees)) =>
                    \/ /\ city \in DOMAIN city_timeseries
                       /\ "employees_cagr" \in DOMAIN city_timeseries[city]
                    \/ city \in DOMAIN city_growth

\* what the sequential loop of lines 46-76 stores, city by city
SequentialStats ==
    [city \in CsvCities |-> city_stats(Where(df, "city", city))]

\* the sequential loop raises ZeroDivisionError in some iteration
SequentialRaises == \E city \in CsvCities : CityRaises(Where(df, "city", city))

InputMissing ==
    \/ pc \in {"analysis", "statistical_tests"} /\ CsvPath \notin DOMAIN files
    \/ pc = "display_results" /\ ResultsPath \notin DOMAIN files

\* C19: a script whose input file is missing ends in its first step, with no
\* analysis function called, no file written and nothing computed, and an
\* ended script does nothing more
C19_MissingInputNothingRun ==
    [][/\ pc # "done"
       /\ InputMissing =>
             /\ pc' = "done"
             /\ steps' = <<>> /\ files' = files
             /\ period_stats' = <<>> /\ cagr_data' = <<>> /\ ret' = <<>>]_vars

\* a script has ended without its input files and without a step
C19_Witness ==
    /\ pc = "done" /\ steps = <<>>
    /\ CsvPath \notin DOMAIN files /\ ResultsPath \notin DOMAIN files

\* the rows the year-in-{2007, 2012, 2021} filter gives the aggregate of a
\* function of create_presentation_figures.py
ThreePointRows(f) ==
    IF f = "create_regional_comparison"
    THEN SelectSeq(ThreePoint(df), LAMBDA j : df[j].region # "none")
    ELSE ThreePoint(df)

\* C20: no aggregate of the figures is over a row of the year 2014, and every
\* aggregate of create_presentation_figures.py is over exactly the rows the
\* year-in-{2007, 2012, 2021} filter selects
C20_Exclude2014IsThreePoint ==
    \A f \in DOMAIN selected :
        /\ \A j \in Range(selected[f].index) : df[j].year # 2014
        /\ selected[f].index = ThreePointRows(f)

\* a city of the DataFrame has a row in the growth chart, under its own name
\* or under its mapped name
InChart(city) ==
    \E row \in Range(growth_data) :
        \/ row.city = city
        \/ city \in DOMAIN city_map /\ row.city = city_map[city]

HasBothYears(city) ==
    /\ ValuesAt(df, city, 2007, "year") # {}
    /\ ValuesAt(df, city, 2021, "year") # {}

\* C21: once the city loop of a 2007-2021 growth chart has ended without
\* error, a city of the dataset is in the chart if and only if the dataset
\* holds an observation of it in 2007 and one in 2021
C21_ChartedIffBothYears ==
    pc = "done" =>
        /\ exc = "none"
        /\ \A city \in Range(Column(df, "cityName")) :
              InChart(city) <=> HasBothYears(city)

\* the distinct years in which the dataset holds an observation of a city
DistinctYears(city) == Range(Column(Where(df, "cityName", city), "year"))

\* C22: every city of city_timeseries and of all_city_growth has
\* observations in at least three distinct years
C22_OnlyCitiesWithThreeYears ==
    \A city \in DOMAIN city_timeseries \cup DOMAIN city_growth :
        Cardinality(DistinctYears(city)) >= 3

\* the API establishments value of a city and the mean of its CSV values
ApiValue(city) ==
    Where(Where(df, "cityName", city), "dataSource", "API")[1].establishments
CsvMean(city) ==
    Mean(Column(Where(Where(df, "cityName", city), "dataSource", "CSV"),
                "establishments"))
HasSource(city, source) ==
    Where(Where(df, "cityName", city), "dataSource", source) # <<>>

\* C23: a city with an API observation and CSV observations of a positive
\* mean is flagged exactly when its API value is at least 3 times (type 'high') or at most a
\* third of (type 'low') the mean of its CSV values, and a city without a CSV
\* observation is never flagged
C23_OutlierIffThreefoldOrThird ==
    pc = "done" =>
        LET outliers == results.outlier_analysis.outlier_cities
        IN  \A city \in JsonCities :
               /\ ~HasSource(city, "CSV") => city \notin DOMAIN outliers
               /\ (/\ HasSource(city, "CSV") /\ HasSource(city, "API")
                   /\ Positive(CsvMean(city))) =>
                     LET high == ~Less(ApiValue(city), Mul(Num(3), CsvMean(city)))
                         low == ~Greater(Mul(Num(3), ApiValue(city)), CsvMean(city))
                     IN  /\ city \in DOMAIN outliers <=> (high \/ low)
                         /\ city \in DOMAIN outliers =>
                               outliers[city].outlier_type =
                                   IF high THEN "high" ELSE "low"

\* C24: every city entry of city_timeseries carries both establishments_cagr
\* and employees_cagr, the two keys create_corrected_cagr_graph reads
C24_EntriesCarryBothCagrs ==
    \A city \in DOMAIN city_timeseries :
        CagrKeys \subseteq DOMAIN city_timeseries[city]

\* the steps of run_full_analysis, lines 483-497
FullSteps ==
    <<"load_data", "descriptive_statistics", "time_series_analysis",
      "regional_comparison", "cluster_analysis", "correlation_analysis",
      "efficiency_analysis", "generate_visualizations", "save_results">>

\* the run has written the results file of that path
WrittenByRun(path) == path \in DOMAIN files /\ ~IsReadOnly(files[path])

\* C25: the steps of run_full_analysis are called in the fixed order, a
\* results JSON file is written only when every step before save_results has
\* completed, and when a step has raised no results JSON file is written
C25_OrderedAndNothingWrittenOnRaise ==
    /\ Len(steps) <= Len(FullSteps)
    /\ steps = SubSeq(FullSteps, 1, Len(steps))
    /\ (WrittenByRun(ResultsPath) \/ WrittenByRun(SummaryPath)) => steps = FullSteps
    /\ exc # "none" =>
          /\ pc = "raised"
          /\ ~WrittenByRun(ResultsPath) /\ ~WrittenByRun(SummaryPath)

Sections ==
    {"descriptive", "timeseries", "regional", "clustering", "correlation",
     "efficiency"}

\* C26: after run_full_analysis has completed without exception the saved
\* results contain all six sections, and the regional section contains
\* anova_results
C26_SixSectionsAndAnova ==
    (pc = "done" /\ exc = "none") =>
        /\ Sections \subseteq DOMAIN files[ResultsPath]
        /\ "anova_results" \in DOMAIN files[ResultsPath].regional

\* no number anywhere in a nested value is NaN or infinite
RECURSIVE NoNaNOrInfinity(_)
NoNaNOrInfinity(obj) ==
    IF IsLeaf(obj) THEN ~IsNaN(obj) /\ ~IsInfinite(obj)
    ELSE \A key \in DOMAIN obj : NoNaNOrInfinity(obj[key])

\* C28: the results JSON that save_results writes holds no NaN and no
\* infinite number
C28_NoNaNOrInfinityWritten ==
    WrittenByRun(ResultsPath) => NoNaNOrInfinity(files[ResultsPath])

\* |r| > 0.7 for a correlation r: by the squares, r^2 > 0.49
AboveThreshold(r) ==
    \/ r.k = "num" /\ 100 * r.n * r.n > 49 * r.d * r.d
    \/ r.k = "corr" /\ 100 * Abs(r.n) > 49 * r.d

PairKey(a, b) == Metrics[a] \o "_vs_" \o Metrics[b]

\* C27: strong_correlations has the key '<first>_vs_<second>' of a pair of
\* distinct variables, first before second in column order, exactly when
\* the absolute value of their correlation is greater than 0.7, and no
\* other key
C27_StrongCorrelationsExact ==
    "correlation" \in DOMAIN results =>
        LET strong == results.correlation.strong_correlations
            corr_matrix == results.correlation.correlation_matrix
        IN  /\ \A a, b \in DOMAIN Metrics :
                  a < b => (PairKey(a, b) \in DOMAIN strong
                            <=> AboveThreshold(corr_matrix[Metrics[a]][Metrics[b]]))
            /\ DOMAIN strong \subseteq
                  { PairKey(p[1], p[2]) :
                      p \in { q \in (DOMAIN Metrics) \X (DOMAIN Metrics) : q[1] < q[2] } }

\* a strong negative correlation is listed while a weak non-zero one is not
C27_Witness ==
    /\ "correlation" \in DOMAIN results
    /\ LET strong == results.correlation.strong_correlations
           corr_matrix == results.correlation.correlation_matrix
       IN  /\ "establishments_vs_employees" \in DOMAIN strong
           /\ Negative(corr_matrix["establishments"]["employees"])
           /\ corr_matrix["establishments"]["sales"].k = "corr"
           /\ "establishments_vs_sales" \notin DOMAIN strong

\* records / (distinct cities * distinct years) as a percentage, to one
\* decimal
Completeness(d) ==
    LET cells == Cardinality(Range(Column(d, "cityName")))
                 * Cardinality(Range(Column(d, "year")))
    IN  Rat((2 * 1000 * Len(d) + cells) \div (2 * cells), 10)

\* C29: the data completeness of the summary and that of the presentation
\* overview both equal records / (distinct cities * distinct years) as a
\* percentage, which is at most 100 when there is at most one observation
\* per (city, year)
C29_CompletenessAgrees ==
    /\ WrittenByRun(SummaryPath) =>
          LET reported == files[SummaryPath].analysis_overview.data_completeness
          IN  /\ reported = Completeness(df)
              /\ WellFormed(df) => reported.n <= 100 * reported.d
    /\ (OverviewPath \in DOMAIN files
        /\ "data_completeness" \in DOMAIN files[OverviewPath]) =>
          files[OverviewPath].data_completeness = Completeness(df)

\* C30: the two top lists hold min(3, number of cities of all_city_growth)
\* entries of all_city_growth in non-increasing order of their rate, and
\* generate_thesis_insights finds the first entry it reads
C30_TopThreeSortedAndFirstExists ==
    /\ "growth_analysis" \in DOMAIN results =>
          \A f \in { <<"top_establishment_growth", "establishments_cagr">>,
                     <<"top_employee_growth", "employees_cagr">> } :
              LET top == results.growth_analysis[f[1]]
                  all == results.growth_analysis.all_city_growth
              IN  /\ Len(top) = Min({3, Cardinality(DOMAIN all)})
                  /\ \A p \in DOMAIN top :
                        top[p][1] \in DOMAIN all /\ top[p][2] = all[top[p][1]]
                  /\ \A p, q \in DOMAIN top :
                        p < q => ~RateLess(top[p][2][f[2]], top[q][2][f[2]])
    /\ exc # "IndexError"

=============================================================================
